---- MODULE Spec2Model ----
(***************************************************************************)
(* State machine of the WMS tile source, src/osgPlugins/wms/               *)
(* ReaderWriterWMS.cpp: construction from plugin options (WMSSource),      *)
(* profile resolution (createProfile) and the per-tile operations          *)
(* (createURI, createImage, createHeightField, getPixelsPerTile,           *)
(* getExtension) called by concurrent tile-loading threads.                *)
(*                                                                         *)
(* A std::string is a sequence of tokens. A token is a run of characters   *)
(* the code never looks inside; the characters it does look at are tokens  *)
(* of their own: "?" (find_first_of at line 104) and the printf conversion *)
(* "%lf" (sprintf at line 258).                                            *)
(***************************************************************************)
EXTENDS Integers, Sequences, FiniteSets, TLC

VARIABLES
    options,            \* the plugin data handed to the constructor (TileSource keeps it)
    _prefix, _layers, _style, _format, _wms_format, _srs,
    _tileServiceURL, _capabilitiesURL, _tile_size, _elevation_unit,
    _tileService,       \* the TileService document read by createProfile
    _prototype,         \* the request template
    pc,                 \* life cycle of the source
    frame,              \* createProfile's arguments, locals and return value at its return
    tiles,              \* per calling thread: the createHeightField call it is inside
    returned            \* the last per-tile call that returned, and what it returned

members == <<_prefix, _layers, _style, _format, _wms_format, _srs,
             _tileServiceURL, _capabilitiesURL, _tile_size, _elevation_unit,
             _tileService, _prototype>>

vars == <<options, _prefix, _layers, _style, _format, _wms_format, _srs,
          _tileServiceURL, _capabilitiesURL, _tile_size, _elevation_unit,
          _tileService, _prototype, pc, frame, tiles, returned>>

-----------------------------------------------------------------------------
(* Bounds of the model *)

\* how many of the plugin properties one configuration sets
MaxOptions == 1

\* how many threads call the per-tile operations of one source
NumThreads == 2

-----------------------------------------------------------------------------
(* Strings *)

EmptyString == <<>>

\* std::string::find_first_of(c) != npos
Contains(s, c) == \E i \in 1..Len(s) : s[i] = c

\* a pointer to a string: <<>> is the null pointer, <<s>> points to s
NullData == <<>>

PROPERTY_URL == "url"
PROPERTY_CAPABILITIES_URL == "capabilities_url"
PROPERTY_TILESERVICE_URL == "tileservice_url"
PROPERTY_LAYERS == "layers"
PROPERTY_STYLE == "style"
PROPERTY_FORMAT == "format"
PROPERTY_WMS_FORMAT == "wms_format"
PROPERTY_TILE_SIZE == "tile_size"
PROPERTY_ELEVATION_UNIT == "elevation_unit"
PROPERTY_SRS == "srs"
PROPERTY_DEFAULT_TILE_SIZE == "default_tile_size"

Properties ==
    { PROPERTY_URL, PROPERTY_CAPABILITIES_URL, PROPERTY_TILESERVICE_URL,
      PROPERTY_LAYERS, PROPERTY_STYLE, PROPERTY_FORMAT, PROPERTY_WMS_FORMAT,
      PROPERTY_TILE_SIZE, PROPERTY_ELEVATION_UNIT, PROPERTY_SRS,
      PROPERTY_DEFAULT_TILE_SIZE }

\* the values a configuration gives a property
PropertyValues(p) ==
    CASE p = PROPERTY_URL -> { <<"http://x/wms">>, <<"http://x/wms", "?", "map=a">> }
      [] p = PROPERTY_CAPABILITIES_URL -> { <<"http://c/caps.xml">> }
      [] p = PROPERTY_TILESERVICE_URL -> { <<"http://t/tiles.xml">> }
      [] p = PROPERTY_LAYERS -> { <<"basic">>, <<"a", "%lf", "b">> }
      [] p = PROPERTY_STYLE -> { <<"visual">> }
      [] p = PROPERTY_FORMAT -> { <<"jpeg">> }
      [] p = PROPERTY_WMS_FORMAT -> { <<"image/tiff">> }
      [] p = PROPERTY_TILE_SIZE -> { <<"512">>, <<"0">> }
      [] p = PROPERTY_ELEVATION_UNIT -> { <<"m">>, <<"ft">>, <<"yd">> }
      [] p = PROPERTY_SRS -> { <<"EPSG:4326">>, <<"EPSG:900913">>, <<"bogus">> }
      [] p = PROPERTY_DEFAULT_TILE_SIZE -> { <<"128">> }

\* the ways of setting every property of S to one of its values
RECURSIVE Settings(_)
Settings(S) ==
    IF S = {} THEN { [p \in {} |-> NullData] }
    ELSE LET p == CHOOSE q \in S : TRUE
         IN  { (p :> <<v>>) @@ f : v \in PropertyValues(p), f \in Settings(S \ {p}) }

\* every configuration: at most MaxOptions properties set, the others absent (null)
AllOptions ==
    { [p \in Properties |-> IF p \in DOMAIN f THEN f[p] ELSE NullData] :
        f \in UNION { Settings(S) : S \in { T \in SUBSET Properties : Cardinality(T) <= MaxOptions } } }

\* osgDB::ReaderWriter::Options::getPluginData
getPluginData(opt, p) == opt[p]

\* std::string( (const char*)options->getPluginData(p) ) when the data is there
StringOrEmpty(opt, p) ==
    IF getPluginData(opt, p) # NullData THEN getPluginData(opt, p)[1] ELSE EmptyString

\* osgEarth::as<int>(str, default): the integer str spells, else the default
as_int(str, default_value) ==
    CASE str = <<"0">> -> 0
      [] str = <<"128">> -> 128
      [] str = <<"256">> -> 256
      [] str = <<"512">> -> 512
      [] OTHER -> default_value

DefaultTileSize == 256


-----------------------------------------------------------------------------
(* The collaborators: spatial references, profiles, the two documents *)

\* the coordinate system an srs string names; "" when none can be built from it
CoordinateSystem(init) ==
    CASE init = <<"EPSG:4326">> -> "wgs84"
      [] init = <<"WGS84">> -> "wgs84"
      [] init = <<"EPSG:900913">> -> "spherical-mercator"
      [] init = <<"EPSG:26917">> -> "utm-17n"
      [] OTHER -> ""

\* osg::ref_ptr<SpatialReference>: valid() is FALSE for the null pointer
NullSRS == [valid |-> FALSE, init |-> EmptyString, cs |-> ""]

\* SpatialReference::create: null when the string names no coordinate system
SpatialReference_create(init) ==
    IF CoordinateSystem(init) = "" THEN NullSRS
    ELSE [valid |-> TRUE, init |-> init, cs |-> CoordinateSystem(init)]

\* SpatialReference::isGeographic, of a valid reference
isGeographic(srs) == srs.cs = "wgs84"

\* SpatialReference::isEquivalentTo
isEquivalentTo(a, b) == a.cs = b.cs

\* a Profile object; id is the object's identity
NullProfile == [id |-> "NULL", srs |-> NullSRS, type |-> "NONE", extent |-> <<0, 0, 0, 0>>]

\* osgEarth::Registry::instance()->getGlobalGeodeticProfile(): the one canonical object
GlobalGeodeticProfile ==
    [id |-> "registry-global-geodetic", srs |-> SpatialReference_create(<<"EPSG:4326">>),
     type |-> "TYPE_GEODETIC", extent |-> <<-180, -90, 180, 90>>]

\* Profile::create( srs, minx, miny, maxx, maxy ): a new object
Profile_create(init, ext) ==
    [id |-> "created", srs |-> SpatialReference_create(init), type |-> "TYPE_LOCAL", extent |-> ext]

\* the profile TileService::createProfile builds from its patterns
TileServiceProfile ==
    [id |-> "tileservice", srs |-> SpatialReference_create(<<"EPSG:4326">>),
     type |-> "TYPE_GEODETIC", extent |-> <<-180, -90, 180, 90>>]

\* the map profiles a caller hands to createProfile (NullProfile: none)
MapProfiles ==
    { NullProfile,
      GlobalGeodeticProfile,
      [id |-> "map-wgs84", srs |-> SpatialReference_create(<<"WGS84">>),
       type |-> "TYPE_GEODETIC", extent |-> <<-180, -90, 180, 90>>],
      [id |-> "map-mercator", srs |-> SpatialReference_create(<<"EPSG:900913">>),
       type |-> "TYPE_MERCATOR", extent |-> <<-20037508, -20037508, 20037508, 20037508>>],
      [id |-> "map-utm", srs |-> SpatialReference_create(<<"EPSG:26917">>),
       type |-> "TYPE_LOCAL", extent |-> <<500000, 4000000, 600000, 4100000>>] }

\* osg::ref_ptr<Capabilities> after a failed read
NullCapabilities == [valid |-> FALSE, suggest |-> EmptyString, layers |-> {}]

\* what CapabilitiesReader::read can return: null, or a document with the
\* extension it suggests and its layers
CapabilitiesDocuments ==
    { NullCapabilities } \cup
    { [valid |-> TRUE, suggest |-> s, layers |-> ls] :
        s \in { EmptyString, <<"gif">> },
        ls \in { {},
                 { [name |-> <<"basic">>, extent |-> <<-180, -90, 180, 90>>] },
                 { [name |-> <<"basic">>, extent |-> <<-180, -90, 180, 85>>] } } }

\* Capabilities::suggestExtension
suggestExtension(capabilities) == capabilities.suggest

\* Capabilities::getLayerByName: <<>> is the null pointer, <<l>> points to l
getLayerByName(capabilities, name) ==
    IF \E l \in capabilities.layers : l.name = name
    THEN << CHOOSE l \in capabilities.layers : l.name = name >>
    ELSE <<>>

\* a TilePattern of a TileService document
TilePattern(layers, format, style, srs, width, height, prototype) ==
    [layers |-> layers, format |-> format, style |-> style, srs |-> srs,
     width |-> width, height |-> height, prototype |-> prototype]

\* the request fragments of the patterns the documents hold
PatternPrototypeA ==
    <<"request=GetMap&layers=global_mosaic&bbox=", "%lf", ",", "%lf", ",", "%lf", ",", "%lf">>
PatternPrototypeB ==
    <<"request=GetMap&layers=global_mosaic_base&bbox=", "%lf", ",", "%lf", ",", "%lf", ",", "%lf">>
PatternPrototypeC ==
    <<"request=GetMap&layers=srtm&bbox=", "%lf", ",", "%lf", ",", "%lf", ",", "%lf">>

\* osg::ref_ptr<TileService> after a failed read
NullTileService == [valid |-> FALSE, patterns |-> <<>>, profile |-> NullProfile]

\* what TileServiceReader::read can return to a source that will ask for
\* (layers, format, style, srs, size, size): null, or a document whose patterns
\* match the request in none, one or two places, and the profile it builds
TileServiceDocuments(layers, format, style, srs, size) ==
    LET other == TilePattern(<<"srtm">>, format, style, srs, size, size, PatternPrototypeC)
        a == TilePattern(layers, format, style, srs, size, size, PatternPrototypeA)
        b == TilePattern(layers, format, style, srs, size, size, PatternPrototypeB)
    IN  { NullTileService,
          [valid |-> TRUE, patterns |-> <<other>>, profile |-> NullProfile] } \cup
        { [valid |-> TRUE, patterns |-> ps, profile |-> p] :
            ps \in { <<other, a>>, <<b, other, a>> },
            p \in { TileServiceProfile, NullProfile } }

\* TileService::getMatchingPatterns: the document's patterns that carry the
\* request's layers, format, style, srs, width and height, in document order
getMatchingPatterns(tileService, layers, format, style, srs, width, height) ==
    SelectSeq(tileService.patterns,
              LAMBDA p : /\ p.layers = layers /\ p.format = format /\ p.style = style
                         /\ p.srs = srs /\ p.width = width /\ p.height = height)

\* TileService::createProfile( patterns )
TileService_createProfile(tileService, patterns) == tileService.profile


-----------------------------------------------------------------------------
(* WMSSource::WMSSource *)

\* _tile_size(256), then lines 81-90: tile_size, else default_tile_size, else 256
TileSizeOf(opt) ==
    IF getPluginData(opt, PROPERTY_TILE_SIZE) # NullData
    THEN as_int(getPluginData(opt, PROPERTY_TILE_SIZE)[1], DefaultTileSize)
    ELSE IF getPluginData(opt, PROPERTY_DEFAULT_TILE_SIZE) # NullData
         THEN as_int(getPluginData(opt, PROPERTY_DEFAULT_TILE_SIZE)[1], DefaultTileSize)
         ELSE DefaultTileSize

\* lines 78-79 and 95-96: the configured unit, "m" when it is absent or empty
ElevationUnitOf(opt) ==
    IF StringOrEmpty(opt, PROPERTY_ELEVATION_UNIT) = EmptyString
    THEN <<"m">>
    ELSE StringOrEmpty(opt, PROPERTY_ELEVATION_UNIT)

\* createProfile's frame when no call of it is returning
NoFrame ==
    [mapProfile |-> NullProfile, capabilities |-> NullCapabilities, wms_srs |-> NullSRS,
     layer |-> <<>>, dereferenced |-> <<>>, selected |-> NullProfile, patterns |-> <<>>,
     requests |-> <<>>, result |-> NullProfile]

\* a thread that is in no per-tile call
NoKey == <<0, 0, 0, 0>>
IdleTile == [pc |-> "idle", key |-> NoKey, uri |-> EmptyString, image |-> "none"]

\* no per-tile call has returned
NothingReturned == [op |-> "none", key |-> NoKey, uri |-> EmptyString, image |-> "none",
                    value |-> <<>>]

Threads == 1..NumThreads

NoOptions == [p \in Properties |-> NullData]

Init ==
    /\ options = NoOptions
    /\ _prefix = EmptyString /\ _layers = EmptyString /\ _style = EmptyString
    /\ _format = EmptyString /\ _wms_format = EmptyString /\ _srs = EmptyString
    /\ _tileServiceURL = EmptyString /\ _capabilitiesURL = EmptyString
    /\ _tile_size = DefaultTileSize /\ _elevation_unit = EmptyString
    /\ _tileService = NullTileService
    /\ _prototype = EmptyString
    /\ pc = "new"
    /\ frame = NoFrame
    /\ tiles = [t \in Threads |-> IdleTile]
    /\ returned = NothingReturned

WMSSource(opt) ==
    /\ pc = "new"
    /\ options' = opt
    /\ _prefix' = StringOrEmpty(opt, PROPERTY_URL)
    /\ _layers' = StringOrEmpty(opt, PROPERTY_LAYERS)
    /\ _style' = StringOrEmpty(opt, PROPERTY_STYLE)
    /\ _format' = StringOrEmpty(opt, PROPERTY_FORMAT)
    /\ _wms_format' = StringOrEmpty(opt, PROPERTY_WMS_FORMAT)
    /\ _capabilitiesURL' = StringOrEmpty(opt, PROPERTY_CAPABILITIES_URL)
    /\ _tileServiceURL' = StringOrEmpty(opt, PROPERTY_TILESERVICE_URL)
    /\ _tile_size' = TileSizeOf(opt)
    /\ _srs' = StringOrEmpty(opt, PROPERTY_SRS)
    /\ _elevation_unit' = ElevationUnitOf(opt)
    /\ pc' = "constructed"
    /\ UNCHANGED <<_tileService, _prototype, frame, tiles, returned>>

-----------------------------------------------------------------------------
(* WMSSource::createProfile *)

\* line 104
Separator(prefix) == IF ~Contains(prefix, "?") THEN "?" ELSE "&"

\* lines 106-107
CapabilitiesURL(capabilitiesURL, prefix) ==
    IF capabilitiesURL = EmptyString
    THEN prefix \o <<Separator(prefix)>> \o <<"SERVICE=WMS&VERSION=1.1.1&REQUEST=GetCapabilities">>
    ELSE capabilitiesURL

\* line 111 as it would be if a failed read were not tested for
CapabilitiesUnreadable_never(capabilities) == FALSE

\* line 111: the read failed
CapabilitiesUnreadable(capabilities) == ~capabilities.valid

\* lines 118-125
ResolvedFormat(format, capabilities) ==
    LET suggested == IF format = EmptyString THEN suggestExtension(capabilities) ELSE format
    IN  IF suggested = EmptyString THEN <<"png">> ELSE suggested

\* lines 127-128
ResolvedSRS(srs) == IF srs = EmptyString THEN <<"EPSG:4326">> ELSE srs

\* the four conversions of the BBOX parameter, line 141
BBoxPlaceholders == <<"%lf", ",", "%lf", ",", "%lf", ",", "%lf">>

\* lines 131-142
GetMapPrototype(prefix, layers, wms_format, format, style, srs, tile_size) ==
    prefix \o <<Separator(prefix)>>
      \o <<"SERVICE=WMS&VERSION=1.1.1&REQUEST=GetMap">>
      \o <<"&LAYERS=">> \o layers
      \o <<"&FORMAT=">> \o (IF wms_format = EmptyString THEN <<"image/">> \o format ELSE wms_format)
      \o <<"&STYLES=">> \o style
      \o <<"&SRS=">> \o srs
      \o <<"&WIDTH=", ToString(tile_size)>>
      \o <<"&HEIGHT=", ToString(tile_size)>>
      \o <<"&BBOX=">> \o BBoxPlaceholders

\* lines 147-150 as they would be if the two SRS were compared by their names
SameSRS_byName(wms_srs, mapProfile) ==
    /\ wms_srs.valid
    /\ mapProfile # NullProfile
    /\ mapProfile.srs.init = wms_srs.init

\* lines 147-150: the map and the WMS source are in the same SRS
SameSRS(wms_srs, mapProfile) ==
    /\ wms_srs.valid
    /\ mapProfile # NullProfile
    /\ isEquivalentTo(mapProfile.srs, wms_srs)

\* wms_srs->isGeographic() at lines 164 and 185. wms_srs was checked at line 147
\* only; through a null pointer the call is undefined: the process faults, or
\* the call returns whatever is read there
Deref_isGeographic(wms_srs) ==
    IF wms_srs.valid
    THEN { IF isGeographic(wms_srs) THEN "true" ELSE "false" }
    ELSE { "fault", "true", "false" }

\* lines 167-170 as they would be with yMin in the place of yMax
EqualsGlobalGeodeticExtent_yMin(ext) ==
    /\ ext[1] = GlobalGeodeticProfile.extent[1]
    /\ ext[2] = GlobalGeodeticProfile.extent[2]
    /\ ext[3] = GlobalGeodeticProfile.extent[3]
    /\ ext[4] = GlobalGeodeticProfile.extent[2]

\* lines 167-170
EqualsGlobalGeodeticExtent(ext) ==
    /\ ext[1] = GlobalGeodeticProfile.extent[1]
    /\ ext[2] = GlobalGeodeticProfile.extent[2]
    /\ ext[3] = GlobalGeodeticProfile.extent[3]
    /\ ext[4] = GlobalGeodeticProfile.extent[4]

\* lines 158-181, for a layer that was found; geographic is what line 164 got
LayerProfile(layer, geographic, srs) ==
    IF geographic /\ EqualsGlobalGeodeticExtent(layer.extent)
    THEN GlobalGeodeticProfile
    ELSE Profile_create(srs, layer.extent)

\* lines 185-188, with no result so far; geographic is what line 185 got
LastResort(geographic, mapProfile) ==
    IF geographic /\ mapProfile # NullProfile /\ mapProfile.type # "TYPE_LOCAL"
    THEN mapProfile
    ELSE NullProfile

\* lines 144-188: every way the selection can end, as [fault, layer,
\* dereferenced, result]; dereferenced lists the lines that evaluated wms_srs->
SelectProfile(mapProfile, capabilities, wms_srs, layers, srs) ==
    LET same == IF SameSRS(wms_srs, mapProfile) THEN mapProfile ELSE NullProfile
        layer == IF same = NullProfile THEN getLayerByName(capabilities, layers) ELSE <<>>
        at164 == IF layer # <<>> THEN Deref_isGeographic(wms_srs) ELSE { "not evaluated" }
        After182(g) == IF layer # <<>> THEN LayerProfile(layer[1], g = "true", srs) ELSE same
        at185(g) == IF g # "fault" /\ After182(g) = NullProfile
                    THEN Deref_isGeographic(wms_srs) ELSE { "not evaluated" }
        After188(g, h) == IF After182(g) = NullProfile
                          THEN LastResort(h = "true", mapProfile) ELSE After182(g)
        Lines(g, h) == (IF g # "not evaluated" THEN <<"164">> ELSE <<>>)
                         \o (IF h # "not evaluated" THEN <<"185">> ELSE <<>>)
    IN  { [fault |-> (g = "fault" \/ h = "fault"),
           layer |-> layer,
           dereferenced |-> Lines(g, h),
           result |-> IF g = "fault" \/ h = "fault" THEN NullProfile ELSE After188(g, h)] :
            <<g, h>> \in { <<g1, h1>> \in (at164 \X { "fault", "true", "false", "not evaluated" }) :
                             h1 \in at185(g1) } }

\* lines 193-194
TileServiceURL(tileServiceURL, prefix) ==
    IF tileServiceURL = EmptyString
    THEN prefix \o <<Separator(prefix)>> \o <<"request=GetTileService">>
    ELSE tileServiceURL

\* lines 198-209: the patterns asked of the document that was read
MatchingPatterns(tileService, layers, format, style, srs, tile_size) ==
    IF tileService.valid
    THEN getMatchingPatterns(tileService, layers, format, style, srs, tile_size, tile_size)
    ELSE <<>>

\* lines 204-206 as they would be if any document read replaced the result
ResultAfterTileService_anyDocument(result, tileService, patterns) ==
    IF tileService.valid
    THEN TileService_createProfile(tileService, patterns)
    ELSE result

\* lines 204-206: the result after the TileService test
ResultAfterTileService(result, tileService, patterns) ==
    IF tileService.valid /\ Len(patterns) > 0
    THEN TileService_createProfile(tileService, patterns)
    ELSE result

\* lines 204-207 as they would be if the last matching pattern were taken
PrototypeAfterTileService_last(prototype, prefix, tileService, patterns) ==
    IF tileService.valid /\ Len(patterns) > 0
    THEN prefix \o <<Separator(prefix)>> \o patterns[Len(patterns)].prototype
    ELSE prototype

\* lines 204-207: the prototype after the TileService test
PrototypeAfterTileService(prototype, prefix, tileService, patterns) ==
    IF tileService.valid /\ Len(patterns) > 0
    THEN prefix \o <<Separator(prefix)>> \o patterns[1].prototype
    ELSE prototype

\* line 216
WithFormatSuffix(prototype, format) == prototype \o <<"&.">> \o format

createProfile(mapProfile, capabilities) ==
    /\ pc = "constructed"
    /\ _capabilitiesURL' = CapabilitiesURL(_capabilitiesURL, _prefix)
    /\ IF CapabilitiesUnreadable(capabilities)
       THEN /\ frame' = [NoFrame EXCEPT !.mapProfile = mapProfile,
                                        !.capabilities = capabilities,
                                        !.requests = <<_capabilitiesURL'>>]
            /\ pc' = "returning"
            /\ UNCHANGED <<_format, _srs, _prototype, _tileServiceURL, _tileService>>
       ELSE /\ _format' = ResolvedFormat(_format, capabilities)
            /\ _srs' = ResolvedSRS(_srs)
            /\ \E sel \in SelectProfile(mapProfile, capabilities,
                                        SpatialReference_create(_srs'), _layers, _srs') :
                 IF sel.fault
                 THEN /\ _prototype' = GetMapPrototype(_prefix, _layers, _wms_format,
                                                       _format', _style, _srs', _tile_size)
                      /\ frame' = [NoFrame EXCEPT !.mapProfile = mapProfile,
                                                  !.capabilities = capabilities,
                                                  !.wms_srs = SpatialReference_create(_srs'),
                                                  !.layer = sel.layer,
                                                  !.dereferenced = sel.dereferenced,
                                                  !.requests = <<_capabilitiesURL'>>]
                      /\ pc' = "faulted"
                      /\ UNCHANGED <<_tileServiceURL, _tileService>>
                 ELSE /\ _tileServiceURL' = TileServiceURL(_tileServiceURL, _prefix)
                      /\ \E tileService \in TileServiceDocuments(_layers, _format', _style,
                                                                 _srs', _tile_size) :
                           LET patterns == MatchingPatterns(tileService, _layers, _format',
                                                            _style, _srs', _tile_size)
                           IN  /\ _tileService' = tileService
                               /\ _prototype' =
                                    WithFormatSuffix(
                                      PrototypeAfterTileService(
                                        GetMapPrototype(_prefix, _layers, _wms_format,
                                                        _format', _style, _srs', _tile_size),
                                        _prefix, tileService, patterns),
                                      _format')
                               /\ frame' = [mapProfile |-> mapProfile,
                                            capabilities |-> capabilities,
                                            wms_srs |-> SpatialReference_create(_srs'),
                                            layer |-> sel.layer,
                                            dereferenced |-> sel.dereferenced,
                                            selected |-> sel.result,
                                            patterns |-> patterns,
                                            requests |-> <<_capabilitiesURL', _tileServiceURL'>>,
                                            result |-> ResultAfterTileService(sel.result,
                                                                              tileService, patterns)]
                      /\ pc' = "returning"
    /\ UNCHANGED <<options, _prefix, _layers, _style, _wms_format, _tile_size,
                   _elevation_unit, tiles, returned>>

\* lines 222-223: the caller has the result (frame.result) and the locals are destroyed
createProfile_return ==
    /\ pc = "returning"
    /\ frame' = NoFrame
    /\ pc' = "resolved"
    /\ UNCHANGED <<options, members, tiles, returned>>

-----------------------------------------------------------------------------
(* The per-tile operations *)

\* TileKey::getGeoExtent().getBounds: <<minx, miny, maxx, maxy>>, each coordinate
\* counted in units of 10^-7
TileKeys == { <<-1800000000, -900000000, 13, 900000027>> }

\* printf's %lf of a double: six decimals, the seventh rounded away; the token
\* spells the number of millionths
FormatLf(v) == "lf:" \o ToString((v + 5) \div 10)

\* how many conversions a format holds
RECURSIVE Conversions(_)
Conversions(format) ==
    IF format = <<>> THEN 0
    ELSE (IF Head(format) = "%lf" THEN 1 ELSE 0) + Conversions(Tail(format))

\* sprintf(buf, format, args...): each %lf consumes the next argument; a %lf
\* with no argument left reads an indeterminate double
RECURSIVE sprintf(_, _, _)
sprintf(format, args, indeterminate) ==
    IF format = <<>> THEN <<>>
    ELSE IF Head(format) # "%lf"
         THEN <<Head(format)>> \o sprintf(Tail(format), args, indeterminate)
         ELSE IF args # <<>>
              THEN <<FormatLf(Head(args))>> \o sprintf(Tail(format), Tail(args), indeterminate)
              ELSE <<FormatLf(indeterminate)>> \o sprintf(Tail(format), args, indeterminate)

\* the doubles a read of a missing argument can give
IndeterminateDoubles == { 0, 990000000 }

\* lines 254-259: every string createURI can return for a key. (The strings of
\* this model are shorter than buf, 2048 characters.)
createURI_results(prototype, key) ==
    IF Conversions(prototype) > Len(key)
    THEN { sprintf(prototype, key, d) : d \in IndeterminateDoubles }
    ELSE { sprintf(prototype, key, 0) }

\* osgDB::readImageFile: an image, or null when the read fails
readImageFile_results == { "image", "null" }

\* lines 240-246
scaleFactor(elevation_unit) == IF elevation_unit = <<"ft">> THEN "0.3048" ELSE "1"

\* lines 252-260 as they would be if the rendered string were kept in _prototype
createURI_cached(t, key) ==
    /\ pc = "resolved"
    /\ tiles[t].pc = "idle"
    /\ \E uri \in createURI_results(_prototype, key) :
         /\ returned' = [NothingReturned EXCEPT !.op = "createURI", !.key = key, !.uri = uri]
         /\ _prototype' = uri
    /\ UNCHANGED <<options, _prefix, _layers, _style, _format, _wms_format, _srs,
                   _tileServiceURL, _capabilitiesURL, _tile_size, _elevation_unit,
                   _tileService, pc, frame, tiles>>

\* lines 252-260, called on its own: returns the URI
createURI(t, key) ==
    /\ pc = "resolved"
    /\ tiles[t].pc = "idle"
    /\ \E uri \in createURI_results(_prototype, key) :
         returned' = [NothingReturned EXCEPT !.op = "createURI", !.key = key, !.uri = uri]
    /\ UNCHANGED <<options, members, pc, frame, tiles>>

\* lines 226-229: returns what readImageFile gives for the URI
createImage(t, key) ==
    /\ pc = "resolved"
    /\ tiles[t].pc = "idle"
    /\ \E uri \in createURI_results(_prototype, key), image \in readImageFile_results :
         returned' = [NothingReturned EXCEPT !.op = "createImage", !.key = key,
                                             !.uri = uri, !.image = image]
    /\ UNCHANGED <<options, members, pc, frame, tiles>>

\* lines 232-238: createHeightField up to the image it got
createHeightField(t, key) ==
    /\ pc = "resolved"
    /\ tiles[t].pc = "idle"
    /\ \E uri \in createURI_results(_prototype, key), image \in readImageFile_results :
         tiles' = [tiles EXCEPT ![t] = [pc |-> "createHeightField", key |-> key,
                                        uri |-> uri, image |-> image]]
    /\ UNCHANGED <<options, members, pc, frame, returned>>

\* lines 240-249: the scale factor, and the conversion of the image, null or
\* not; returns the converter's height field of (image, scaleFactor)
createHeightField_convert(t) ==
    /\ pc = "resolved"
    /\ tiles[t].pc = "createHeightField"
    /\ returned' = [NothingReturned EXCEPT !.op = "createHeightField",
                                           !.key = tiles[t].key,
                                           !.image = tiles[t].image,
                                           !.value = <<scaleFactor(_elevation_unit)>>]
    /\ tiles' = [tiles EXCEPT ![t] = IdleTile]
    /\ UNCHANGED <<options, members, pc, frame>>

\* lines 262-265
getPixelsPerTile(t) ==
    /\ pc = "resolved"
    /\ tiles[t].pc = "idle"
    /\ returned' = [NothingReturned EXCEPT !.op = "getPixelsPerTile", !.value = <<_tile_size>>]
    /\ UNCHANGED <<options, members, pc, frame, tiles>>

\* lines 267-270
getExtension(t) ==
    /\ pc = "resolved"
    /\ tiles[t].pc = "idle"
    /\ returned' = [NothingReturned EXCEPT !.op = "getExtension", !.value = <<_format>>]
    /\ UNCHANGED <<options, members, pc, frame, tiles>>

Next ==
    \/ \E opt \in AllOptions : WMSSource(opt)
    \/ \E mapProfile \in MapProfiles, capabilities \in CapabilitiesDocuments :
         createProfile(mapProfile, capabilities)
    \/ createProfile_return
    \/ \E t \in Threads, key \in TileKeys : createURI(t, key)
    \/ \E t \in Threads, key \in TileKeys : createImage(t, key)
    \/ \E t \in Threads, key \in TileKeys : createHeightField(t, key)
    \/ \E t \in Threads : createHeightField_convert(t)
    \/ \E t \in Threads : getPixelsPerTile(t)
    \/ \E t \in Threads : getExtension(t)

Spec == Init /\ [][Next]_vars

-----------------------------------------------------------------------------
(* Properties *)

\* createProfile is at its return statement
Returning == pc = "returning"

\* the separator after the prefix: "&" when the prefix holds a "?", else "?"
SepOf(prefix) == IF \E i \in DOMAIN prefix : prefix[i] = "?" THEN "&" ELSE "?"

\* s begins with p
BeginsWith(s, p) == Len(p) <= Len(s) /\ SubSeq(s, 1, Len(p)) = p

\* the reference built from the target srs is that of the caller's profile
TargetEquivalentToCaller ==
    /\ frame.mapProfile # NullProfile
    /\ CoordinateSystem(_srs) # ""
    /\ CoordinateSystem(_srs) = frame.mapProfile.srs.cs

\* the capabilities document holds the requested layer
RequestedLayers == { l \in frame.capabilities.layers : l.name = _layers }

\* C1: when the capabilities document cannot be read, createProfile returns
\* NULL, has read nothing but the capabilities URL (no TileService probe), and
\* _prototype, _format, _srs are those of the constructor: empty, and as configured.
C1_CapabilitiesFailureIsFatal ==
    (Returning /\ ~frame.capabilities.valid) =>
        /\ frame.result = NullProfile
        /\ frame.requests = <<_capabilitiesURL>>
        /\ ~_tileService.valid
        /\ _tileServiceURL = StringOrEmpty(options, PROPERTY_TILESERVICE_URL)
        /\ _prototype = EmptyString
        /\ _format = StringOrEmpty(options, PROPERTY_FORMAT)
        /\ _srs = StringOrEmpty(options, PROPERTY_SRS)

\* C1's case: a failed read, for a caller with a profile and a configuration
\* that sets neither format nor srs
C1_Witness ==
    /\ Returning /\ ~frame.capabilities.valid
    /\ frame.mapProfile.id = "map-wgs84"
    /\ options[PROPERTY_FORMAT] = NullData /\ options[PROPERTY_SRS] = NullData
    /\ options[PROPERTY_TILESERVICE_URL] # NullData

\* C2 as stated: with the capabilities read, a target reference equivalent to
\* the caller's means createProfile returns the caller's profile object.
C2_AsStated ==
    (Returning /\ frame.capabilities.valid /\ TargetEquivalentToCaller) =>
        frame.result = frame.mapProfile

\* C2, amended: with the capabilities read and no TileService pattern matching,
\* a target reference equivalent to the caller's means createProfile returns
\* the caller's profile object, whatever the capabilities document holds.
C2_CallerProfileKept ==
    (Returning /\ frame.capabilities.valid /\ TargetEquivalentToCaller
       /\ frame.patterns = <<>>) =>
        frame.result = frame.mapProfile

\* C2's case: the caller's reference is named differently from the target's and
\* is equivalent to it, and the capabilities hold the layer with another extent
C2_Witness ==
    /\ Returning /\ frame.capabilities.valid /\ TargetEquivalentToCaller
    /\ frame.patterns = <<>>
    /\ frame.mapProfile.id = "map-wgs84"
    /\ \E l \in RequestedLayers : l.extent # frame.mapProfile.extent
    /\ frame.result = frame.mapProfile

\* C3 as stated: with one matching pattern or more, the template begins with
\* the first pattern's fragment and the result is the TileService's profile.
C3_AsStated ==
    (Returning /\ Len(frame.patterns) >= 1) =>
        /\ BeginsWith(_prototype, frame.patterns[1].prototype)
        /\ frame.result = _tileService.profile

\* C3, amended: with one matching pattern or more, the template is the prefix
\* and its separator, then the first pattern's fragment (in the place of the
\* GetMap string), then "&." and the format; and the result is the profile the
\* TileService document gives, whatever was selected before.
C3_TileServiceOverrides ==
    (Returning /\ Len(frame.patterns) >= 1) =>
        /\ _prototype = _prefix \o <<SepOf(_prefix)>> \o frame.patterns[1].prototype
                          \o <<"&.">> \o _format
        /\ ~BeginsWith(SubSeq(_prototype, Len(_prefix) + 2, Len(_prototype)),
                       <<"SERVICE=WMS&VERSION=1.1.1&REQUEST=GetMap">>)
        /\ frame.result = _tileService.profile

\* C3's case: two patterns match, and the TileService's profile replaces the
\* caller's profile that had been selected
C3_Witness ==
    /\ Returning /\ Len(frame.patterns) = 2
    /\ frame.patterns[1].prototype # frame.patterns[2].prototype
    /\ frame.selected = frame.mapProfile /\ frame.mapProfile # NullProfile
    /\ frame.result = TileServiceProfile
    /\ Contains(_prefix, "?")

\* C4: when the TileService document was asked for and could not be read, or no
\* pattern of it matches, createProfile returns the profile selected before the
\* probe and the template is the GetMap template followed by "&." and the format.
C4_ProbeFailureChangesNothing ==
    (Returning /\ Len(frame.requests) = 2
       /\ (~_tileService.valid \/ frame.patterns = <<>>)) =>
        /\ frame.result = frame.selected
        /\ _prototype = GetMapPrototype(_prefix, _layers, _wms_format, _format,
                                        _style, _srs, _tile_size)
                          \o <<"&.">> \o _format

\* C4's case: a document was read, none of its patterns matches, and a profile
\* had been selected
C4_Witness ==
    /\ Returning /\ Len(frame.requests) = 2
    /\ _tileService.valid /\ Len(_tileService.patterns) >= 1 /\ frame.patterns = <<>>
    /\ frame.selected # NullProfile
    /\ frame.result = frame.selected

\* C5 as stated: with the capabilities read, a geographic target and a layer
\* extent equal to the global-geodetic bounds mean the registry's
\* global-geodetic profile object is returned.
C5_AsStated ==
    (Returning /\ frame.capabilities.valid
       /\ CoordinateSystem(_srs) = "wgs84"
       /\ \E l \in RequestedLayers : l.extent = <<-180, -90, 180, 90>>) =>
        frame.result = GlobalGeodeticProfile

\* C5, amended: with the capabilities read, the caller's reference (if any) not
\* equivalent to the target's, and no TileService pattern matching, a geographic
\* target and a layer extent equal to the global-geodetic bounds mean the
\* registry's global-geodetic profile object is returned.
C5_CanonicalGlobalGeodetic ==
    (Returning /\ frame.capabilities.valid
       /\ CoordinateSystem(_srs) = "wgs84"
       /\ (\E l \in RequestedLayers : l.extent = <<-180, -90, 180, 90>>)
       /\ ~TargetEquivalentToCaller
       /\ frame.patterns = <<>>) =>
        frame.result = GlobalGeodeticProfile

\* C5's case: the layer was looked up for a caller whose profile is not the
\* registry's, and the registry's object came back
C5_Witness ==
    /\ Returning /\ frame.capabilities.valid
    /\ CoordinateSystem(_srs) = "wgs84"
    /\ frame.layer # <<>> /\ frame.layer[1].extent = <<-180, -90, 180, 90>>
    /\ frame.mapProfile.id = "map-mercator"
    /\ frame.patterns = <<>>
    /\ frame.result = GlobalGeodeticProfile

\* C6 as stated: once constructed, the elevation unit is "m" or "ft" and the
\* tile size is positive, whatever was configured and whatever has run since.
C6_AsStated ==
    (pc # "new") => /\ _elevation_unit \in { <<"m">>, <<"ft">> }
                    /\ _tile_size > 0

\* the template is a string without conversions, then the four of the BBOX,
\* then "&." and the format
FourPlaceholdersThenSuffix(prototype, format) ==
    LET n == Len(prototype) - Len(BBoxPlaceholders) - 1 - Len(format)
    IN  /\ n >= 0
        /\ Conversions(SubSeq(prototype, 1, n)) = 0
        /\ SubSeq(prototype, n + 1, Len(prototype)) = BBoxPlaceholders \o <<"&.">> \o format

\* the template with the key's bounds in the four places of the BBOX, in order
RenderedInOrder(prototype, format, key) ==
    LET n == Len(prototype) - Len(BBoxPlaceholders) - 1 - Len(format)
    IN  SubSeq(prototype, 1, n)
          \o <<FormatLf(key[1]), ",", FormatLf(key[2]), ",", FormatLf(key[3]), ",", FormatLf(key[4])>>
          \o <<"&.">> \o format

\* the URIs in the state: the one the last createURI or createImage rendered,
\* and those of the threads inside createHeightField; each with its key
RenderedURIs ==
    (IF returned.op \in { "createURI", "createImage" }
     THEN { <<returned.key, returned.uri>> } ELSE {})
      \cup { <<tiles[t].key, tiles[t].uri>> :
               t \in { u \in Threads : tiles[u].pc = "createHeightField" } }

\* C7 as stated: once createProfile is past the capabilities, the template holds
\* exactly four conversions followed by the format suffix, and every URI
\* rendered for a key is the template with the key's minx, miny, maxx, maxy in
\* those four places and nothing else changed.
C7_AsStated ==
    (pc = "resolved" /\ _prototype # EmptyString) =>
        /\ FourPlaceholdersThenSuffix(_prototype, _format)
        /\ \A r \in RenderedURIs : r[2] = RenderedInOrder(_prototype, _format, r[1])

\* C8 as stated: with the capabilities read, the target not equivalent to the
\* caller's reference, the layer not in the capabilities and no TileService
\* pattern matching, createProfile returns the caller's profile when the target
\* is geographic and the caller has a profile that is not local, and NULL otherwise.
C8_AsStated ==
    (pc \in { "returning", "faulted" } /\ frame.capabilities.valid
       /\ ~TargetEquivalentToCaller
       /\ RequestedLayers = {}
       /\ frame.patterns = <<>>) =>
        /\ pc = "returning"
        /\ frame.result =
             IF /\ CoordinateSystem(_srs) = "wgs84"
                /\ frame.mapProfile # NullProfile
                /\ frame.mapProfile.type # "TYPE_LOCAL"
             THEN frame.mapProfile
             ELSE NullProfile

\* C9: a step of a per-tile operation (the steps that change tiles or returned)
\* leaves the template, the format, the srs, the tile size and the elevation
\* unit as they were; and, the conversions of the template having their
\* arguments, the URIs rendered for one key are the same URI, whichever thread
\* rendered them and however the calls were interleaved.
C9_PerTileOperationsWriteNothing ==
    /\ [][ (tiles' # tiles \/ returned' # returned) =>
             UNCHANGED <<_prototype, _format, _srs, _tile_size, _elevation_unit>> ]_vars
    /\ [](\A r, q \in RenderedURIs :
            (Conversions(_prototype) <= 4 /\ r[1] = q[1]) => r[2] = q[2])

\* C9's case: two threads are inside createHeightField at once, between the
\* fetch and the conversion, after a createImage of a third call has returned
C9_Witness ==
    /\ pc = "resolved"
    /\ tiles[1].pc = "createHeightField" /\ tiles[2].pc = "createHeightField"
    /\ returned.op = "createImage"
    /\ Cardinality(RenderedURIs) = 1

\* C10 as stated: wherever createProfile evaluates wms_srs->isGeographic(), the
\* reference built from the target srs is valid.
C10_AsStated ==
    (pc \in { "returning", "faulted" } /\ frame.dereferenced # <<>>) =>
        CoordinateSystem(_srs) # ""

====
